---- MODULE Spec2Model ----
(***************************************************************************)
(* natural_contribute.py and progressive_contribute.py: the day-by-day     *)
(* generator of backdated commits.  The two scripts differ in one line,    *)
(* the hour range of the late-night branch of the time-of-day sampling;    *)
(* the variable `script` says which of the two is running.                 *)
(*                                                                         *)
(* A date is the number of days since 2022-01-01 (a Saturday); the year,   *)
(* month, day and weekday the code reads off a datetime are computed from  *)
(* it.  A random.uniform multiplier is counted in hundredths, so that      *)
(* int(base * m) is (base * m) \div 100.                                   *)
(***************************************************************************)
EXTENDS Integers, Sequences, FiniteSets

VARIABLES
    pc,                    \* where the run is
    script,                \* "natural" or "progressive"
    repository_url,        \* None, "" or a URL
    start_date, end_date,  \* the parsed range
    current_date,
    total_commits, days_with_commits, total_days_processed,
    commits_today, i,      \* the inner loop of one day
    progress,              \* calculate_commits_per_day's progress, <<num, den>>
    excluded,              \* the last result of is_break_period
    time_choice,           \* the last random.random() draw, in hundredths
    file,                  \* contributions.txt, a sequence of lines
    git_commits,           \* event commits the git command made
    calls,                 \* how often each kind of command was run
    report                 \* what was printed about the push

vars == <<pc, script, repository_url, start_date, end_date, current_date,
          total_commits, days_with_commits, total_days_processed,
          commits_today, i, progress, excluded, time_choice, file,
          git_commits, calls, report>>

(***************************************************************************)
(* Bounds of the model.                                                    *)
(***************************************************************************)
LastDay == 1825        \* dates 2022-01-01 .. 2026-12-31 for the pure functions
MaxRangeDays == 2      \* a run covers at most MaxRangeDays + 1 days
MaxEvents == 2         \* the days of a run hold at most MaxEvents events in all
MaxCalcDays == 12      \* (end - start).days of the ranges given to the count function

(***************************************************************************)
(* datetime: year, month, day and weekday of a day number.                 *)
(***************************************************************************)
IsLeap(y) == (y % 4 = 0 /\ y % 100 # 0) \/ y % 400 = 0

DaysInYear(y) == IF IsLeap(y) THEN 366 ELSE 365

DaysInMonth(y, m) ==
    IF m = 2 THEN (IF IsLeap(y) THEN 29 ELSE 28)
    ELSE IF m \in {4, 6, 9, 11} THEN 30 ELSE 31

RECURSIVE YearFrom(_, _)
YearFrom(d, y) ==
    IF d < DaysInYear(y) THEN <<y, d>> ELSE YearFrom(d - DaysInYear(y), y + 1)

RECURSIVE MonthFrom(_, _, _)
MonthFrom(d, y, m) ==
    IF d < DaysInMonth(y, m) THEN <<m, d + 1>>
    ELSE MonthFrom(d - DaysInMonth(y, m), y, m + 1)

\* The calendar date of day number d >= 0.
YMD(d) ==
    LET yd == YearFrom(d, 2022)
        md == MonthFrom(yd[2], yd[1], 1)
    IN  [year |-> yd[1], month |-> md[1], day |-> md[2]]

\* datetime.weekday(): Monday is 0; 2022-01-01 was a Saturday.
Weekday(d) == (d + 5) % 7

(***************************************************************************)
(* is_break_period                                                         *)
(***************************************************************************)
is_break_period_dec15(date) ==
    LET year == YMD(date).year
        month == YMD(date).month
        day == YMD(date).day
    IN  IF year = 2023 /\ month \in {3, 4} THEN TRUE
        ELSE IF year = 2024 /\ month \in {4, 5} THEN TRUE
        ELSE IF year = 2024 /\ month = 12 /\ day >= 15 THEN TRUE
        ELSE IF year = 2025 /\ month = 2 /\ (day <= 15 \/ day >= 16) THEN TRUE
        ELSE FALSE

is_break_period_first_half(date) ==
    LET year == YMD(date).year
        month == YMD(date).month
        day == YMD(date).day
    IN  IF year = 2023 /\ month \in {3, 4} THEN TRUE
        ELSE IF year = 2024 /\ month \in {4, 5} THEN TRUE
        ELSE IF year = 2024 /\ month = 12 /\ day <= 16 THEN TRUE
        ELSE IF year = 2025 /\ month = 2 /\ (day <= 15 \/ day >= 16) THEN TRUE
        ELSE FALSE

is_break_period(date) ==
    LET year == YMD(date).year
        month == YMD(date).month
        day == YMD(date).day
    IN  IF year = 2023 /\ month \in {3, 4} THEN TRUE
        ELSE IF year = 2024 /\ month \in {4, 5} THEN TRUE
        ELSE IF year = 2024 /\ month = 12 /\ day >= 16 THEN TRUE
        ELSE IF year = 2025 /\ month = 2 /\ (day <= 15 \/ day >= 16) THEN TRUE
        ELSE FALSE

(***************************************************************************)
(* random: the values a draw can return.                                   *)
(***************************************************************************)
\* random.randint(a, b): an integer of a..b; with a > b there is none and
\* the call raises ValueError.
RandInt(a, b) == a..b

\* random.uniform(lo, hi), in hundredths: the draws the model takes are
\* the two ends and every tenth between them.
Uniform(lo, hi) == {m \in lo..hi : (m - lo) % 10 = 0}

\* int(base * m) for base >= 0 and m in hundredths.
IntTimes(base, m) == (base * m) \div 100

(***************************************************************************)
(* calculate_commits_per_day                                               *)
(***************************************************************************)
\* progress = current_day / total_days if total_days > 0 else 0, as the
\* fraction <<numerator, denominator>> with a positive denominator.
ProgressOffByOne(date, start, end) ==
    LET total_days == end - start
        current_day == date - start
    IN  IF total_days > 0 THEN <<current_day, total_days + 1>> ELSE <<0, 1>>

Progress(date, start, end) ==
    LET total_days == end - start
        current_day == date - start
    IN  IF total_days > 0 THEN <<current_day, total_days>> ELSE <<0, 1>>

\* p < n/d for the fraction p and positive d.
Below(p, n, d) == p[1] * d < n * p[2]

\* The base draw of the tier the progress falls in.
BaseDraws(p) ==
    IF Below(p, 3, 10) THEN RandInt(0, 2)
    ELSE IF Below(p, 7, 10) THEN RandInt(1, 5)
    ELSE RandInt(3, 12)

\* Which of the two weekly multipliers applies.
WeeklyDraws(date) ==
    IF Weekday(date) < 5 THEN Uniform(100, 150) ELSE Uniform(30, 80)

\* The mid-month multiplier; outside days 5..25 none is drawn and the
\* count is left as it is.
MonthlyDraws(date) ==
    IF 5 <= YMD(date).day /\ YMD(date).day <= 25 THEN Uniform(100, 130) ELSE {100}

VariationDraws == Uniform(50, 150)

ClampNone(n) == n

\* max(0, min(15, base_commits))
Clamp(n) ==
    LET capped == IF n < 15 THEN n ELSE 15
    IN  IF capped > 0 THEN capped ELSE 0

\* The value returned for one outcome of the four draws.
calculate_commits_per_day(base, weekly, monthly, variation) ==
    LET afterWeekly == IntTimes(base, weekly)
        afterMonthly == IntTimes(afterWeekly, monthly)
        afterVariation == IntTimes(afterMonthly, variation)
    IN  Clamp(afterVariation)

\* Every value calculate_commits_per_day can return for a date of a range.
CommitCounts(date, start, end) ==
    { calculate_commits_per_day(b, w, m, v) :
        b \in BaseDraws(Progress(date, start, end)),
        w \in WeeklyDraws(date),
        m \in MonthlyDraws(date),
        v \in VariationDraws }

(***************************************************************************)
(* run_command and what the commands return.                               *)
(***************************************************************************)
\* Stands for Python's None, which equals no string a command prints.
None == "None"

\* `if x:` of a string or None.
Truthy(x) == x # None /\ x # ""

\* How a command can end: a non-zero exit status, or exit status 0 with
\* nothing or something on its standard output.
Outcomes ==
    { [ok |-> FALSE, stdout |-> ""],
      [ok |-> TRUE, stdout |-> ""],
      [ok |-> TRUE, stdout |-> "out"] }

\* subprocess.run(..., check=True): stdout, or None after CalledProcessError.
run_command(outcome) == IF outcome.ok THEN outcome.stdout ELSE None

(***************************************************************************)
(* contributions.txt                                                       *)
(***************************************************************************)
\* open("contributions.txt", "w"), then the title, the rule and "\n\n".
Header ==
    << [text |-> "GitHub Activity Contributions"],
       [text |-> "=============================="],
       [text |-> ""] >>

HeaderAppended(old) == old \o Header

\* with open("contributions.txt", "w") as f: what the file held is dropped.
write_header(old) == Header

\* date.strftime('%Y-%m-%d %H:%M') of <<day number, hour, minute>>.
Strftime(t) ==
    [year |-> YMD(t[1]).year, month |-> YMD(t[1]).month, day |-> YMD(t[1]).day,
     hour |-> t[2], minute |-> t[3]]

\* current_date.replace(hour=hour, minute=minute)
Replace(date, hour, minute) == <<date, hour, minute>>

ContributionLine(t, commit_count) ==
    [text |-> "Contribution", stamp |-> Strftime(t), n |-> commit_count]

\* A line a previous run left in the file.
StaleLine == ContributionLine(<<0, 9, 0>>, 7)

\* create_commit's open(filename, "a") and write.
create_commit(date, commit_count) == Append(file, ContributionLine(date, commit_count))

\* The 'Contribution:' lines of the file, in order.
Contributions == SelectSeq(file, LAMBDA line : line.text = "Contribution")

(***************************************************************************)
(* The time-of-day sampling of one event.                                  *)
(***************************************************************************)
\* random.random(), in hundredths: the draws on either side of the two
\* thresholds.
TimeChoices == {59, 60, 89, 90}

\* The hours the branch taken draws from; empty when randint raises.
HourDraws(s, choice) ==
    IF choice < 60 THEN RandInt(9, 18)
    ELSE IF choice < 90 THEN RandInt(18, 23)
    ELSE IF s = "natural" THEN RandInt(23, 2)
    ELSE RandInt(0, 2)

Least(S) == CHOOSE x \in S : \A y \in S : x <= y

Greatest(S) == CHOOSE x \in S : \A y \in S : x >= y

\* hour = random.randint(...) of the branch, minute = random.randint(0, 59):
\* of the times <<hour, minute>> the two draws can give, the model takes
\* the earliest and the latest.
TimeDraws(hours) ==
    { <<Least(hours), Least(RandInt(0, 59))>>,
      <<Greatest(hours), Greatest(RandInt(0, 59))>> }

(***************************************************************************)
(* The run.                                                                *)
(***************************************************************************)
Scripts == {"natural", "progressive"}

Repositories == {None, "", "https://github.com/username/repo.git"}

\* Start dates next to the blackout windows: 2023-02-26, three days before
\* the break of March 2023, and 2024-12-31, the last day of a break.
StartDates == {421, 1095}

Init ==
    /\ pc \in {"main", "generate"}
    /\ script \in Scripts
    /\ repository_url \in Repositories
    /\ start_date \in StartDates
    /\ end_date \in (start_date - 1)..(start_date + MaxRangeDays)
    /\ current_date = 0
    /\ total_commits = 0
    /\ days_with_commits = 0
    /\ total_days_processed = 0
    /\ commits_today = 0
    /\ i = 0
    /\ progress = <<0, 1>>
    /\ excluded = FALSE
    /\ time_choice = 0
    /\ file \in {<<>>, <<StaleLine>>}
    /\ git_commits = 0
    /\ calls = [kind \in {"add", "commit", "remote", "push"} |-> 0]
    /\ report = [printed |-> "none", result |-> None]

\* main(): without --repository the usage is printed and nothing runs.
Main ==
    /\ pc = "main"
    /\ pc' = IF ~Truthy(repository_url) THEN "usage" ELSE "generate"
    /\ UNCHANGED <<script, repository_url, start_date, end_date, current_date,
                   total_commits, days_with_commits, total_days_processed,
                   commits_today, i, progress, excluded, time_choice, file,
                   git_commits, calls, report>>

\* generate_natural_contributions up to the date loop: the header replaces
\* what the file held, the initial add and commit are run, the counters are
\* set.  (git init, run when there is no .git, changes nothing kept here.)
Setup ==
    /\ pc = "generate"
    /\ calls' = [calls EXCEPT !["add"] = @ + 1, !["commit"] = @ + 1]
    /\ file' = write_header(file)
    /\ current_date' = start_date
    /\ total_commits' = 0
    /\ days_with_commits' = 0
    /\ total_days_processed' = 0
    /\ pc' = "loop"
    /\ UNCHANGED <<script, repository_url, start_date, end_date, commits_today,
                   i, progress, excluded, time_choice, git_commits, report>>

\* while current_date <= end_date: the loop ends.
LoopExit ==
    /\ pc = "loop"
    /\ ~(current_date <= end_date)
    /\ pc' = "summary"
    /\ UNCHANGED <<script, repository_url, start_date, end_date, current_date,
                   total_commits, days_with_commits, total_days_processed,
                   commits_today, i, progress, excluded, time_choice, file,
                   git_commits, calls, report>>

\* A day of a break period: counted, skipped.
SkipDay ==
    /\ pc = "loop"
    /\ current_date <= end_date
    /\ is_break_period(current_date)
    /\ excluded' = TRUE
    /\ total_days_processed' = total_days_processed + 1
    /\ current_date' = current_date + 1
    /\ UNCHANGED <<pc, script, repository_url, start_date, end_date,
                   total_commits, days_with_commits, commits_today, i, progress,
                   time_choice, file, git_commits, calls, report>>

\* Any other day: its number of commits is drawn; with none the day is over.
PlanDay ==
    /\ pc = "loop"
    /\ current_date <= end_date
    /\ ~is_break_period(current_date)
    /\ excluded' = FALSE
    /\ total_days_processed' = total_days_processed + 1
    /\ progress' = Progress(current_date, start_date, end_date)
    /\ \E n \in CommitCounts(current_date, start_date, end_date) :
         /\ total_commits + n <= MaxEvents
         /\ commits_today' = n
         /\ IF n > 0
            THEN /\ days_with_commits' = days_with_commits + 1
                 /\ i' = 0
                 /\ pc' = "event"
                 /\ UNCHANGED current_date
            ELSE /\ current_date' = current_date + 1
                 /\ UNCHANGED <<days_with_commits, i, pc>>
    /\ UNCHANGED <<script, repository_url, start_date, end_date, total_commits,
                   time_choice, file, git_commits, calls, report>>

CommitNumberOfDay(total, index) == index + 1

\* create_commit(commit_time, total_commits): the number the event is given,
\* with total the counter after its increment and index the loop's i.
CommitNumber(total, index) == total

\* One pass of `for i in range(commits_today)`: the time is sampled, the
\* counter incremented, create_commit appends the line and runs git add and
\* git commit, whose failures are printed and ignored.  After the last pass
\* the day is over.  randint of an empty range raises ValueError, which
\* nothing catches.
EmitEvent ==
    /\ pc = "event"
    /\ i < commits_today
    /\ \E choice \in TimeChoices :
         /\ time_choice' = choice
         /\ IF HourDraws(script, choice) = {}
            THEN /\ pc' = "crashed"
                 /\ UNCHANGED <<current_date, total_commits, i, file,
                                git_commits, calls>>
            ELSE \E time \in TimeDraws(HourDraws(script, choice)),
                    commit \in Outcomes :
                   /\ total_commits' = total_commits + 1
                   /\ file' = create_commit(Replace(current_date, time[1], time[2]),
                                            CommitNumber(total_commits', i))
                   /\ calls' = [calls EXCEPT !["add"] = @ + 1, !["commit"] = @ + 1]
                   /\ git_commits' = IF run_command(commit) # None
                                     THEN git_commits + 1 ELSE git_commits
                   /\ i' = i + 1
                   /\ IF i + 1 < commits_today
                      THEN UNCHANGED <<pc, current_date>>
                      ELSE /\ pc' = "loop"
                           /\ current_date' = current_date + 1
    /\ UNCHANGED <<script, repository_url, start_date, end_date,
                   days_with_commits, total_days_processed, commits_today,
                   progress, excluded, report>>

\* `if result:` of the push.
PushSucceeded(result) == Truthy(result)

\* After the loop: the summary, then with a repository the remote is added
\* and the push is run once and reported.
Finish ==
    /\ pc = "summary"
    /\ IF Truthy(repository_url)
       THEN \E remote \in Outcomes, push \in Outcomes :
              /\ calls' = [calls EXCEPT !["remote"] = @ + 1, !["push"] = @ + 1]
              /\ report' = [printed |-> IF PushSucceeded(run_command(push))
                                        THEN "success" ELSE "failed",
                            result |-> run_command(push)]
       ELSE UNCHANGED <<calls, report>>
    /\ pc' = "done"
    /\ UNCHANGED <<script, repository_url, start_date, end_date, current_date,
                   total_commits, days_with_commits, total_days_processed,
                   commits_today, i, progress, excluded, time_choice, file,
                   git_commits>>

Next == Main \/ Setup \/ LoopExit \/ SkipDay \/ PlanDay \/ EmitEvent \/ Finish

Spec == Init /\ [][Next]_vars

(***************************************************************************)
(* is_break_period alone, on every date of 2022-01-01 .. LastDay.          *)
(***************************************************************************)
\* The variables a specification of one function leaves alone.
Rest ==
    /\ script = "natural"
    /\ repository_url = None
    /\ total_commits = 0
    /\ days_with_commits = 0
    /\ total_days_processed = 0
    /\ i = 0
    /\ time_choice = 0
    /\ file = <<>>
    /\ git_commits = 0
    /\ calls = [kind \in {"add", "commit", "remote", "push"} |-> 0]
    /\ report = [printed |-> "none", result |-> None]

InitBreak ==
    /\ pc = "is_break_period"
    /\ current_date \in 0..LastDay
    /\ start_date = 0
    /\ end_date = LastDay
    /\ commits_today = 0
    /\ progress = <<0, 1>>
    /\ excluded = FALSE
    /\ Rest

BreakCall ==
    /\ pc = "is_break_period"
    /\ excluded' = is_break_period(current_date)
    /\ pc' = "returned"
    /\ UNCHANGED <<script, repository_url, start_date, end_date, current_date,
                   total_commits, days_with_commits, total_days_processed,
                   commits_today, i, progress, time_choice, file, git_commits,
                   calls, report>>

SpecBreak == InitBreak /\ [][BreakCall]_vars

(***************************************************************************)
(* calculate_commits_per_day alone, called for the dates from the day      *)
(* before a range to the day after it, in order.                           *)
(***************************************************************************)
\* 2023-01-01, a Sunday and the first of a month, and 2025-08-18, a Monday
\* from which the days run past the 25th.
CalcStarts == {365, 1325}

InitCalc ==
    /\ pc = "calculate"
    /\ start_date \in CalcStarts
    /\ end_date \in (start_date - 1)..(start_date + MaxCalcDays)
    /\ current_date = start_date - 1
    /\ commits_today = 0
    /\ progress = <<0, 1>>
    /\ excluded = FALSE
    /\ Rest

Calculate ==
    /\ pc = "calculate"
    /\ progress' = Progress(current_date, start_date, end_date)
    /\ commits_today' \in CommitCounts(current_date, start_date, end_date)
    /\ pc' = "returned"
    /\ UNCHANGED <<script, repository_url, start_date, end_date, current_date,
                   total_commits, days_with_commits, total_days_processed, i,
                   excluded, time_choice, file, git_commits, calls, report>>

NextDate ==
    /\ pc = "returned"
    /\ current_date <= end_date
    /\ current_date' = current_date + 1
    /\ pc' = "calculate"
    /\ UNCHANGED <<script, repository_url, start_date, end_date, total_commits,
                   days_with_commits, total_days_processed, commits_today, i,
                   progress, excluded, time_choice, file, git_commits, calls,
                   report>>

NextCalc == Calculate \/ NextDate

SpecCalc == InitCalc /\ [][NextCalc]_vars

(***************************************************************************)
(* The properties.                                                         *)
(***************************************************************************)
\* The blackout windows as intervals of day numbers: 2023-03-01..2023-04-30,
\* 2024-04-01..2024-05-31, 2024-12-16..2024-12-31, 2025-02-01..2025-02-28.
BlackoutWindows == {<<424, 484>>, <<821, 881>>, <<1080, 1095>>, <<1127, 1154>>}

InBlackout(date) == \E w \in BlackoutWindows : w[1] <= date /\ date <= w[2]

\* The same windows read off a formatted date.
StampInBlackout(stamp) ==
    \/ stamp.year = 2023 /\ stamp.month \in {3, 4}
    \/ stamp.year = 2024 /\ stamp.month \in {4, 5}
    \/ stamp.year = 2024 /\ stamp.month = 12 /\ stamp.day \in 16..31
    \/ stamp.year = 2025 /\ stamp.month = 2

\* The run is in or past the date loop.
Started == pc \in {"loop", "event", "summary", "done", "crashed"}

\* The run has ended, normally or by an exception.
Ended == pc \in {"usage", "done", "crashed"}

\* The step is a call of create_commit.
EventStep == pc = "event" /\ pc' # "crashed" /\ file' # file

\* C1: every call of create_commit appends the number 1 when the run has
\* emitted no event yet, and otherwise the number of the previous event
\* plus 1, whatever day the two events are on and whatever git answered.
C1_SequenceByOne ==
    [][EventStep =>
         /\ Len(file') = Len(file) + 1
         /\ LET before == Contributions
                number == file'[Len(file')].n
            IN  IF Len(before) = 0 THEN number = 1
                ELSE number = before[Len(before)].n + 1]_vars

\* Two events on 2023-02-26 and 2023-02-28, a day without events between
\* them, and no git commit succeeded.
C1_Witness ==
    /\ Len(Contributions) = 2
    /\ Contributions[1].stamp.day = 26
    /\ Contributions[2].stamp.day = 28
    /\ Contributions[2].n = 2
    /\ git_commits = 0

\* C2: whatever the date, the range and the four draws,
\* calculate_commits_per_day returns an integer of 0..15.
C2_CountInBounds == pc = "returned" => commits_today \in 0..15

\* The greatest count is returned, on a date after the end of its range.
C2_Witness ==
    /\ pc = "returned"
    /\ commits_today = 15
    /\ current_date > end_date

C4_NoEventInBlackout ==
    [][/\ (pc = "loop" /\ current_date <= end_date /\ InBlackout(current_date))
            => /\ file' = file
               /\ calls' = calls
               /\ git_commits' = git_commits
               /\ total_commits' = total_commits
               /\ days_with_commits' = days_with_commits
               /\ current_date' = current_date + 1
       /\ EventStep => ~StampInBlackout(file'[Len(file')].stamp)]_vars

\* The run went over the blackout day 2024-12-31 and emitted an event on
\* the day after it.
C4_Witness ==
    /\ start_date = 1095
    /\ Len(Contributions) >= 1
    /\ Contributions[1].stamp = [year |-> 2025, month |-> 1, day |-> 1,
                                 hour |-> 9, minute |-> 0]

\* The hours the claim gives for a draw, the late-night window being 23:00
\* to 02:59.
ClaimedHours(choice) ==
    IF choice < 60 THEN 9..18
    ELSE IF choice < 90 THEN 18..23
    ELSE {23, 0, 1, 2}

\* C5: the sampling of an event's time never aborts the run, and the event
\* is emitted on the current date with an hour of the window the draw
\* selects and a minute of 0..59.
C5_SamplingReturnsATime ==
    [][pc = "event" =>
         /\ pc' # "crashed"
         /\ Len(file') = Len(file) + 1
         /\ LET stamp == file'[Len(file')].stamp
            IN  /\ stamp.hour \in ClaimedHours(time_choice')
                /\ stamp.minute \in 0..59
                /\ <<stamp.year, stamp.month, stamp.day>> =
                     <<YMD(current_date).year, YMD(current_date).month,
                       YMD(current_date).day>>]_vars

\* C6: a run over a range with start <= end ends only by completing, with
\* every day of the range counted once.
C6_EveryDayThenDone ==
    (Ended /\ pc # "usage" /\ start_date <= end_date)
        => /\ pc = "done"
           /\ total_days_processed = (end_date - start_date) + 1
           /\ current_date = end_date + 1

\* p <= q for fractions with positive denominators.
Leq(p, q) == p[1] * q[2] <= q[1] * p[2]

\* C7: on the dates of the range the progress is within [0,1], is 0 at the
\* start, is 1 at the end of a range of more than one day, is 0 on a
\* single-day range, and from one date to the next it never decreases.
C7_ProgressMonotone ==
    /\ [](pc = "returned" /\ start_date <= current_date /\ current_date <= end_date
            => /\ Leq(<<0, 1>>, progress) /\ Leq(progress, <<1, 1>>)
               /\ current_date = start_date => progress[1] = 0
               /\ (current_date = end_date /\ end_date > start_date)
                     => progress[1] = progress[2]
               /\ end_date = start_date => progress[1] = 0)
    /\ [][(pc = "calculate" /\ start_date < current_date /\ current_date <= end_date)
            => Leq(progress, progress')]_vars

\* The last date of a range of more than two days, with progress 1.
C7_Witness ==
    /\ pc = "returned"
    /\ end_date > start_date + 2
    /\ current_date = end_date
    /\ progress = <<end_date - start_date, end_date - start_date>>

\* Neither git remote add nor git push has been run and nothing was
\* printed about a push.
NoRemoteNoPush ==
    /\ calls["remote"] = 0
    /\ calls["push"] = 0
    /\ report.printed = "none"

\* C8: without a repository the run ends only by completing, and at no
\* time has it run git remote add or git push or printed anything about a
\* push.
C8_CompletesWithoutPush ==
    ~Truthy(repository_url)
        => /\ NoRemoteNoPush
           /\ Ended => pc \in {"usage", "done"}

\* C9: with a repository a completed run has pushed exactly once, printed
\* the failure message exactly when the push command failed and the success
\* message exactly when it succeeded.
C9_PushReported ==
    (pc = "done" /\ Truthy(repository_url))
        => /\ calls["push"] = 1
           /\ report.printed = "failed" <=> report.result = None
           /\ report.printed = "success" <=> report.result # None

\* C10: from the date loop on, the file is the three header lines followed
\* by one line per event, the k-th of them numbered k, as many as the
\* counter says; and no more event commits succeeded than there are lines.
C10_LogMatchesCounter ==
    Started
        => /\ Len(file) = 3 + total_commits
           /\ SubSeq(file, 1, 3) = Header
           /\ \A k \in 1..total_commits :
                file[3 + k].text = "Contribution" /\ file[3 + k].n = k
           /\ git_commits <= total_commits

\* A completed run of two events, of which git committed exactly one.
C10_Witness ==
    /\ pc = "done"
    /\ total_commits = 2
    /\ git_commits = 1
    /\ Len(file) = 5

====
